---------------------------- MODULE Spec2Model ----------------------------
(***************************************************************************)
(* A model of the WhatsApp trivia bot (src/trivia_bot.py): the round       *)
(* timeline of AsyncTriviaGameMaster.run_question / send_stop / send_rep / *)
(* send_next driven by main(), and the message callback check_answer that  *)
(* runs on the gateway's thread and shares the per-question state with the *)
(* timeline under self.lock.                                               *)
(*                                                                         *)
(* Every `with self.lock:` block is one atomic step; check_answer touches  *)
(* shared state only inside its single `with self.lock:` block, so one     *)
(* evaluation is one step as well.                                         *)
(***************************************************************************)
EXTENDS Integers, Sequences, FiniteSets, TLC

(***************************************************************************)
(* Python values.  A value carries its type, so that isinstance, `is None`,*)
(* truthiness and the TypeError / AttributeError of an operation on the    *)
(* wrong type can be modelled.  A str is a sequence of one-character       *)
(* strings.  A dict is a record whose absent keys hold Missing.            *)
(***************************************************************************)
None == [ty |-> "NoneType", v |-> 0]
Missing == [ty |-> "missing", v |-> 0]
PyInt(n) == [ty |-> "int", v |-> n]
PyStr(s) == [ty |-> "str", v |-> s]
PyBool(b) == [ty |-> "bool", v |-> b]
PyDict(d) == [ty |-> "dict", v |-> d]

\* bool(x) for the values the program tests: None, "", 0, False, {} are falsy
Truthy(x) ==
    CASE x.ty = "NoneType" -> FALSE
      [] x.ty = "missing" -> FALSE
      [] x.ty = "bool" -> x.v
      [] x.ty = "int" -> x.v # 0
      [] x.ty = "str" -> x.v # <<>>
      [] x.ty = "dict" -> \E k \in DOMAIN x.v : x.v[k] # Missing
      [] OTHER -> TRUE

\* d.get(key): None when the key is absent
Get(d, key) == IF d[key] = Missing THEN None ELSE d[key]

\* d.get(key, default)
GetOr(d, key, default) == IF d[key] = Missing THEN default ELSE d[key]

(***************************************************************************)
(* Characters and the str methods the program uses.                        *)
(***************************************************************************)
Spaces == {" ", "\t"}
Letters == {"a", "b", "c", "d", "A", "B", "C", "D"}
Digits == {"1", "2"}

\* \s of the re module
IsSpace(c) == c \in Spaces

\* \w of the re module: letters, digits and the underscore
IsWord(c) == c \in Letters \cup Digits \cup {"_"}

LowerChar(c) ==
    CASE c = "A" -> "a"
      [] c = "B" -> "b"
      [] c = "C" -> "c"
      [] c = "D" -> "d"
      [] OTHER -> c

\* str.lower()
Lower(s) == [i \in 1..Len(s) |-> LowerChar(s[i])]

RECURSIVE LStrip(_)
LStrip(s) ==
    IF s # <<>> /\ IsSpace(Head(s)) THEN LStrip(Tail(s)) ELSE s

RECURSIVE RStrip(_)
RStrip(s) ==
    IF s # <<>> /\ IsSpace(s[Len(s)]) THEN RStrip(SubSeq(s, 1, Len(s) - 1)) ELSE s

\* str.strip()
Strip(s) == RStrip(LStrip(s))

\* re.sub(r"[^\w\s]", "", s)
RemoveNonWord(s) == SelectSeq(s, LAMBDA c : IsWord(c) \/ IsSpace(c))

\* re.sub(r"\s+", " ", s)
RECURSIVE CollapseSpaces(_)
CollapseSpaces(s) ==
    IF s = <<>> THEN <<>>
    ELSE IF IsSpace(Head(s)) THEN <<" ">> \o CollapseSpaces(LStrip(Tail(s)))
    ELSE <<Head(s)>> \o CollapseSpaces(Tail(s))

\* a normalize that trims before it removes the punctuation
normalizeTrimFirst(text) ==
    IF text.ty # "str" THEN <<>>
    ELSE RemoveNonWord(Strip(CollapseSpaces(Lower(text.v))))

\* normalize(text): a str
normalize(text) ==
    IF text.ty # "str" THEN <<>>
    ELSE Strip(CollapseSpaces(RemoveNonWord(Lower(text.v))))


(***************************************************************************)
(* Configuration constants and the bounds of the model.                    *)
(***************************************************************************)
QUESTION_DURATION == 15
REP_DELAY == 10
NEXT_DELAY == 5
MAX_WINNERS == 5

\* how far time.time() of the bot's host may be behind the gateway's clock
MaxSkew == 16

GROUP_ID == PyStr(<<"g", "1">>)
OTHER_GROUP == PyStr(<<"g", "2">>)

(***************************************************************************)
(* load_questions_from_csv: the rows of the question file.                 *)
(***************************************************************************)
\* the pieces of s between the separators: str.split(sep)
RECURSIVE Split(_, _)
Split(s, sep) ==
    IF \A i \in 1..Len(s) : s[i] # sep THEN <<s>>
    ELSE LET k == CHOOSE i \in 1..Len(s) : s[i] = sep /\ \A j \in 1..(i - 1) : s[j] # sep
         IN  <<SubSeq(s, 1, k - 1)>> \o Split(SubSeq(s, k + 1, Len(s)), sep)

\* the set comprehension of lines 67-69
LoadAnswers(field) ==
    LET toks == Split(field, "|")
    IN  {Strip(Lower(toks[i])) : i \in {j \in 1..Len(toks) : Strip(toks[j]) # <<>>}}

load_questions_from_csv(rows) ==
    [i \in 1..Len(rows) |->
        [question |-> Strip(rows[i].question), answers |-> LoadAnswers(rows[i].answers)]]

\* questions.csv:   q1,A|b. ||c      q2,a|c  d
CsvRows ==
    << [question |-> <<"q", "1">>, answers |-> <<"A", "|", "b", ".", " ", "|", "|", "c">>],
       [question |-> <<"q", "2">>, answers |-> <<"a", "|", "c", " ", " ", "d">>] >>

Questions == load_questions_from_csv(CsvRows)

VARIABLES
    \* ----- the timeline: main() and run_question -----
    pc,                        \* where the timeline stands
    qi,                        \* i of main's loop, the question number
    now,                       \* the gateway's clock, in whole seconds
    skew,                      \* time.time() of the host minus the gateway's clock
    msg,                       \* run_question's msg, the acknowledgment of sendText
    msg_timestamp,             \* run_question's msg_timestamp
    first_msg_id,              \* send_rep's first_msg_id
    answers_copy,              \* send_rep's answers_copy
    \* ----- self.*: the state shared under self.lock -----
    correct_answers,
    correct_respondents,
    seen_users,
    current_question_msg_id,
    current_question_text,
    first_correct_message_id,
    question_timestamp,
    cutoff_timestamp,
    leaderboard_data,
    \* ----- the gateway -----
    outbox,                    \* what client.sendText / client.reply have sent
    \* ----- the callback -----
    listening,                 \* the onMessage listener still runs
    message,                   \* the message check_answer was last called with
    outcome,                   \* how that call ended
    windows,                   \* the [opened, cutoff] of the rounds opened so far
    \* ----- construction -----
    state,                     \* creator.state after creator.start()
    lock,                      \* self.lock
    timeline_unlocked,         \* the shared fields run_question's last step touched
                               \* outside its `with self.lock:` blocks
    callback_unlocked,         \* the same of the last check_answer
    \* ----- a call of a function of the module -----
    given,                     \* its argument
    returned,                  \* what it returned
    again                      \* what it returned when applied to that

timeline == <<pc, qi, now, skew, msg, msg_timestamp, first_msg_id, answers_copy>>
round == <<correct_answers, correct_respondents, seen_users, first_correct_message_id,
           question_timestamp, cutoff_timestamp>>
shared == <<round, current_question_msg_id, current_question_text, leaderboard_data>>
callback == <<listening, message, outcome>>
startup == <<state, lock>>
access == <<timeline_unlocked, callback_unlocked>>
pure == <<given, returned, again>>
vars == <<timeline, shared, outbox, callback, windows, startup, access, pure>>

\* __init__, lines 131-144, then main() up to its loop
Constructed ==
    /\ pc = "loop"
    /\ qi = 1
    /\ now = 0
    /\ msg = None
    /\ msg_timestamp = None
    /\ first_msg_id = None
    /\ answers_copy = {}
    /\ correct_answers = {}
    /\ correct_respondents = <<>>
    /\ seen_users = {}
    /\ current_question_msg_id = None
    /\ current_question_text = None
    /\ first_correct_message_id = None
    /\ question_timestamp = None
    /\ cutoff_timestamp = None
    /\ leaderboard_data = <<>>
    /\ outbox = <<>>
    /\ listening = TRUE
    /\ message = None
    /\ outcome = "none"
    /\ windows = <<>>
    /\ state = "CONNECTED"
    /\ lock = "free"
    /\ timeline_unlocked = {}
    /\ callback_unlocked = {}
    /\ given = None
    /\ returned = None
    /\ again = None

\* the host's clock agrees with the gateway's
Init == Constructed /\ skew = 0

\* the host's clock is behind the gateway's
InitSkew == Constructed /\ skew = -MaxSkew

(***************************************************************************)
(* Text of the outbound messages.                                          *)
(***************************************************************************)
\* ord(c) of the characters that occur in answers
CodePoint(c) ==
    CASE c = "\t" -> 9 [] c = " " -> 32 [] c = "!" -> 33 [] c = "." -> 46
      [] c = "1" -> 49 [] c = "2" -> 50
      [] c = "A" -> 65 [] c = "B" -> 66 [] c = "C" -> 67 [] c = "D" -> 68
      [] c = "_" -> 95
      [] c = "a" -> 97 [] c = "b" -> 98 [] c = "c" -> 99 [] c = "d" -> 100
      [] OTHER -> 127

\* s < t of two str
RECURSIVE StrLess(_, _)
StrLess(s, t) ==
    IF t = <<>> THEN FALSE
    ELSE IF s = <<>> THEN TRUE
    ELSE IF CodePoint(Head(s)) # CodePoint(Head(t)) THEN CodePoint(Head(s)) < CodePoint(Head(t))
    ELSE StrLess(Tail(s), Tail(t))

\* a sort that puts the greatest first
RECURSIVE SortedDescending(_)
SortedDescending(S) ==
    IF S = {} THEN <<>>
    ELSE LET greatest == CHOOSE x \in S : \A y \in S \ {x} : StrLess(y, x)
         IN  <<greatest>> \o SortedDescending(S \ {greatest})

\* sorted(S) of a set of str
RECURSIVE Sorted(_)
Sorted(S) ==
    IF S = {} THEN <<>>
    ELSE LET least == CHOOSE x \in S : \A y \in S \ {x} : StrLess(x, y)
         IN  <<least>> \o Sorted(S \ {least})

\* sep.join(strs)
RECURSIVE Join(_, _)
Join(sep, strs) ==
    IF strs = <<>> THEN <<>>
    ELSE IF Len(strs) = 1 THEN strs[1]
    ELSE strs[1] \o sep \o Join(sep, Tail(strs))

DigitChar(n) == CASE n = 0 -> "0" [] n = 1 -> "1" [] n = 2 -> "2" [] n = 3 -> "3"
                  [] n = 4 -> "4" [] n = 5 -> "5" [] n = 6 -> "6" [] OTHER -> "9"

\* f"Q{question_number}: {question}"
QuestionText(number, question) == <<"Q", DigitChar(number), ":", " ">> \o question
STOP == <<"S", "T", "O", "P">>
REP == <<"R", "E", "P">>
NEXT == <<"N", "E", "X", "T">>
\* f"REP: {answers}" with answers = " / ".join(sorted(answers_copy))
RepAnswersText(answers) == REP \o <<":", " ">> \o Join(<<" ", "/", " ">>, Sorted(answers))

\* client.sendText(self.group_id, text) and client.reply(self.group_id, text, quoted)
SentText(text) == [kind |-> "sendText", to |-> GROUP_ID, text |-> text, quoted |-> None]
SentReply(text, quoted) == [kind |-> "reply", to |-> GROUP_ID, text |-> text, quoted |-> quoted]

\* the acknowledgment sendText returns: {"id": ..., "t": ...}, "t" may be absent
Acks == {[id |-> PyStr(<<"q", DigitChar(qi)>>), t |-> t] : t \in {PyInt(now), Missing}}

\* int(time.time()) on the bot's host
LocalTime == now + skew

(***************************************************************************)
(* The timeline.                                                           *)
(***************************************************************************)
\* An exception of client.sendText / client.reply leaves run_question, main
\* and asyncio.run (line 539 catches KeyboardInterrupt only): the process ends,
\* and the callback with it.
Crash ==
    /\ pc' = "crashed"
    /\ message' = None
    /\ outcome' = "none"
    /\ timeline_unlocked' = {}
    /\ callback_unlocked' = {}
    /\ UNCHANGED <<qi, now, skew, startup, pure, msg, msg_timestamp, first_msg_id, answers_copy>>
    /\ UNCHANGED <<shared, outbox, listening, windows>>

\* self.correct_respondents = [] binds a new list: an entry that held the old
\* one keeps it and no longer sees what is appended
Rebound(entries) == [i \in DOMAIN entries |-> [entries[i] EXCEPT !.live = FALSE]]

\* line 175
AcceptedAnswers(answers) == {Strip(Lower(a)) : a \in answers}

\* run_question, lines 174-180
ResetState ==
    /\ pc = "loop"
    /\ lock = "free"
    /\ qi <= Len(Questions)
    /\ correct_answers' = AcceptedAnswers(Questions[qi].answers)
    /\ correct_respondents' = <<>>
    /\ seen_users' = {}
    /\ first_correct_message_id' = None
    /\ question_timestamp' = None
    /\ cutoff_timestamp' = None
    /\ leaderboard_data' = Rebound(leaderboard_data)
    /\ pc' = "send_question"
    /\ timeline_unlocked' = {}
    /\ UNCHANGED callback_unlocked
    /\ UNCHANGED <<qi, now, skew, startup, pure, msg, msg_timestamp, first_msg_id, answers_copy>>
    /\ UNCHANGED <<current_question_msg_id, current_question_text>>
    /\ UNCHANGED <<outbox, callback, windows>>

\* run_question, lines 183-191
SendQuestion ==
    /\ pc = "send_question"
    /\ \E ack \in Acks :
        /\ msg' = ack
        /\ msg_timestamp' = IF Get(ack, "t") = None THEN PyInt(LocalTime) ELSE Get(ack, "t")
    /\ outbox' = Append(outbox, SentText(QuestionText(qi, Questions[qi].question)))
    /\ pc' = "store"
    /\ timeline_unlocked' = {}
    /\ UNCHANGED callback_unlocked
    /\ UNCHANGED <<qi, now, skew, startup, pure, first_msg_id, answers_copy, shared, callback, windows>>

SendQuestionFails ==
    /\ pc = "send_question"
    /\ Crash

\* line 198
Cutoff(opened) == PyInt(opened.v + QUESTION_DURATION)

\* run_question, lines 194-206: the second lock block, then the prints, of
\* which that of line 205 reads self.cutoff_timestamp after the block is left
StoreMeta ==
    /\ pc = "store"
    /\ lock = "free"
    /\ current_question_msg_id' = Get(msg, "id")
    /\ current_question_text' = PyStr(Questions[qi].question)
    /\ question_timestamp' = msg_timestamp
    /\ cutoff_timestamp' = Cutoff(msg_timestamp)
    /\ windows' = Append(windows, [opened |-> msg_timestamp.v, cutoff |-> Cutoff(msg_timestamp).v])
    /\ pc' = "collect"
    /\ timeline_unlocked' = {"cutoff_timestamp"}
    /\ UNCHANGED callback_unlocked
    /\ UNCHANGED <<qi, now, skew, startup, pure, msg, msg_timestamp, first_msg_id, answers_copy>>
    /\ UNCHANGED <<correct_answers, correct_respondents, seen_users, first_correct_message_id>>
    /\ UNCHANGED <<leaderboard_data, outbox, callback>>

\* The clock after asyncio.sleep(seconds).  The sleep is taken at its minimum,
\* which brings the next round as close to this one as the timeline allows.
Slept(seconds) == now + seconds

\* a window that closes without its STOP
SendStopSkipped ==
    /\ pc = "collect"
    /\ now' = Slept(QUESTION_DURATION)
    /\ pc' = "grace"
    /\ timeline_unlocked' = {}
    /\ UNCHANGED callback_unlocked
    /\ UNCHANGED <<qi, skew, startup, pure, msg, msg_timestamp, first_msg_id, answers_copy>>
    /\ UNCHANGED <<shared, outbox, callback, windows>>

\* run_question, lines 209-212: asyncio.sleep(QUESTION_DURATION), then send_stop
SendStop ==
    /\ pc = "collect"
    /\ now' = Slept(QUESTION_DURATION)
    /\ outbox' = Append(outbox, SentText(STOP))
    /\ pc' = "grace"
    /\ timeline_unlocked' = {}
    /\ UNCHANGED callback_unlocked
    /\ UNCHANGED <<qi, skew, startup, pure, msg, msg_timestamp, first_msg_id, answers_copy>>
    /\ UNCHANGED <<shared, callback, windows>>

SendStopFails ==
    /\ pc = "collect"
    /\ Crash

\* run_question, lines 215-218, then send_rep, lines 248-251.  The 0.5 s of
\* line 215 is below the clock's resolution: it is part of the lag.
ReadForRep ==
    /\ pc = "grace"
    /\ lock = "free"
    /\ now' = Slept(REP_DELAY)
    /\ first_msg_id' = first_correct_message_id
    /\ answers_copy' = correct_answers
    /\ pc' = "send_rep"
    /\ timeline_unlocked' = {}
    /\ UNCHANGED callback_unlocked
    /\ UNCHANGED <<qi, skew, startup, pure, msg, msg_timestamp, shared, outbox, callback, windows>>

\* what send_rep sends, lines 253-261
RepMessage(first, answers) ==
    IF Truthy(first) THEN SentReply(REP, first) ELSE SentText(RepAnswersText(answers))

\* no question is taken for the last
IsLastQuestionNever == FALSE

\* line 222
IsLastQuestion == qi = Len(Questions)

SendRep ==
    /\ pc = "send_rep"
    /\ outbox' = Append(outbox, RepMessage(first_msg_id, answers_copy))
    /\ pc' = IF IsLastQuestion THEN "save_last" ELSE "next"
    /\ first_msg_id' = None
    /\ answers_copy' = {}
    /\ timeline_unlocked' = {}
    /\ UNCHANGED callback_unlocked
    /\ UNCHANGED <<qi, now, skew, startup, pure, msg, msg_timestamp>>
    /\ UNCHANGED <<shared, callback, windows>>

SendRepFails ==
    /\ pc = "send_rep"
    /\ Crash

\* an entry whose winners are the list self.correct_respondents itself
EntryNotCopied ==
    [question_text |-> current_question_text, winners |-> correct_respondents, live |-> TRUE]

\* The entry of lines 228-233 and 275-280.  "live" tells whether its winners are
\* the very list object self.correct_respondents: .copy() makes a list of its own.
Entry ==
    [question_text |-> current_question_text, winners |-> correct_respondents, live |-> FALSE]

\* self.correct_respondents.append(w) as the holders of that list see it
AppendSeen(entries, w) ==
    [i \in DOMAIN entries |->
        IF entries[i].live THEN [entries[i] EXCEPT !.winners = Append(@, w)] ELSE entries[i]]

\* a last round that is not put on the leaderboard
SaveLastForgotten ==
    /\ pc = "save_last"
    /\ pc' = "done"
    /\ msg' = None
    /\ msg_timestamp' = None
    /\ timeline_unlocked' = {}
    /\ UNCHANGED callback_unlocked
    /\ UNCHANGED <<qi, now, skew, startup, pure, first_msg_id, answers_copy>>
    /\ UNCHANGED <<shared, outbox, callback, windows>>

\* run_question, lines 227-233, then the end of main's loop
SaveLast ==
    /\ pc = "save_last"
    /\ lock = "free"
    /\ leaderboard_data' = Append(leaderboard_data, Entry)
    /\ pc' = "done"
    /\ msg' = None
    /\ msg_timestamp' = None
    /\ timeline_unlocked' = {}
    /\ UNCHANGED callback_unlocked
    /\ UNCHANGED <<qi, now, skew, startup, pure, first_msg_id, answers_copy>>
    /\ UNCHANGED <<round, current_question_msg_id, current_question_text>>
    /\ UNCHANGED <<outbox, callback, windows>>

\* run_question, line 223, then send_next, line 270
SendNext ==
    /\ pc = "next"
    /\ now' = Slept(NEXT_DELAY)
    /\ outbox' = Append(outbox, SentText(NEXT))
    /\ pc' = "save_next"
    /\ timeline_unlocked' = {}
    /\ UNCHANGED callback_unlocked
    /\ UNCHANGED <<qi, skew, startup, pure, msg, msg_timestamp, first_msg_id, answers_copy>>
    /\ UNCHANGED <<shared, callback, windows>>

SendNextFails ==
    /\ pc = "next"
    /\ Crash

\* send_next, lines 274-290, then main's loop goes on
SaveAndReset ==
    /\ pc = "save_next"
    /\ lock = "free"
    /\ leaderboard_data' = Rebound(Append(leaderboard_data, Entry))
    /\ current_question_msg_id' = None
    /\ current_question_text' = None
    /\ correct_answers' = {}
    /\ correct_respondents' = <<>>
    /\ seen_users' = {}
    /\ first_correct_message_id' = None
    /\ question_timestamp' = None
    /\ cutoff_timestamp' = None
    /\ qi' = qi + 1
    /\ pc' = "loop"
    /\ msg' = None
    /\ msg_timestamp' = None
    /\ timeline_unlocked' = {}
    /\ UNCHANGED callback_unlocked
    /\ UNCHANGED <<now, skew, startup, pure, first_msg_id, answers_copy>>
    /\ UNCHANGED <<outbox, callback, windows>>

Timeline ==
    \/ ResetState
    \/ SendQuestion
    \/ SendQuestionFails
    \/ StoreMeta
    \/ SendStop
    \/ SendStopFails
    \/ ReadForRep
    \/ SendRep
    \/ SendRepFails
    \/ SaveLast
    \/ SendNext
    \/ SendNextFails
    \/ SaveAndReset

(***************************************************************************)
(* check_answer.                                                           *)
(***************************************************************************)
EmptyDict == PyDict([id |-> Missing, pushname |-> Missing])
Someone == PyStr(<<"S", "o", "m", "e", "o", "n", "e">>)

\* repr(d) of a sender dict without "id": "{}" or "{'pushname': '...'}"
ReprSender(d) ==
    IF d.pushname = Missing THEN <<"{", "}">>
    ELSE <<"{", "'", "p", "u", "s", "h", "n", "a", "m", "e", "'", ":", " ", "'">>
         \o d.pushname.v \o <<"'", "}">>

\* str(x) of a str or of a sender dict
StrOf(x) == IF x.ty = "str" THEN x.v ELSE ReprSender(x.v)

\* a filter that lets the bot's own messages through
IrrelevantButOwn(m) ==
    \/ ~Truthy(m)
    \/ ~Truthy(Get(m.v, "isGroupMsg"))
    \/ Get(m.v, "from") # GROUP_ID

\* lines 321-326; a message that is not a dict has no .get
Irrelevant(m) ==
    \/ ~Truthy(m)
    \/ Truthy(Get(m.v, "fromMe"))
    \/ ~Truthy(Get(m.v, "isGroupMsg"))
    \/ Get(m.v, "from") # GROUP_ID

\* lines 343-344
NoActiveQuestion == question_timestamp = None \/ cutoff_timestamp = None

\* line 347
TooEarly(t) == t.v < question_timestamp.v

\* a cutoff that shuts the window one second early
TooLateExclusive(t) == t.v >= cutoff_timestamp.v

\* line 351
TooLate(t) == t.v > cutoff_timestamp.v

\* any body passes for an answer
IncorrectNever(body) == FALSE

\* line 361
Incorrect(body) == body \notin correct_answers

\* lines 365-367
SenderInfo(m) == GetOr(m.v, "sender", EmptyDict)
SenderId(m) == StrOf(GetOr(SenderInfo(m).v, "id", SenderInfo(m)))
SenderName(m) == GetOr(SenderInfo(m).v, "pushname", Someone)

\* no memory of who has answered
AlreadyAnsweredForgotten(sender_id) == FALSE

\* line 370
AlreadyAnswered(sender_id) == sender_id \in seen_users

\* a cap that lets one more winner in
CapReachedOffByOne == Len(correct_respondents) > MAX_WINNERS

\* line 374
CapReached == Len(correct_respondents) >= MAX_WINNERS

\* How a call check_answer(m) ends: the return it takes (lines 327-375), the
\* exception an operation raises, or "accepted" (lines 377-398).
Verdict(m) ==
    LET body == normalize(Get(m.v, "body"))
        msg_timestamp_ == Get(m.v, "t")
    IN  IF Truthy(m) /\ m.ty # "dict" THEN "AttributeError"
        ELSE IF Irrelevant(m) THEN "irrelevant"
        ELSE IF body = <<>> THEN "empty_body"
        ELSE IF msg_timestamp_ = None THEN "no_timestamp"
        ELSE IF NoActiveQuestion THEN "no_question"
        ELSE IF msg_timestamp_.ty # "int" THEN "TypeError"
        ELSE IF TooEarly(msg_timestamp_) THEN "early"
        ELSE IF TooLate(msg_timestamp_) THEN
            IF SenderInfo(m).ty # "dict" THEN "AttributeError" ELSE "late"
        ELSE IF Incorrect(body) THEN "wrong"
        ELSE IF SenderInfo(m).ty # "dict" THEN "AttributeError"
        ELSE IF AlreadyAnswered(SenderId(m)) THEN "duplicate"
        ELSE IF CapReached THEN "cap"
        ELSE "accepted"

Raised(verdict) == verdict \in {"AttributeError", "TypeError"}

\* a handler for TypeError alone
CaughtTypeErrorOnly(exception) == exception = "TypeError"

\* lines 400-403: except Exception
Caught(exception) == exception \in {"AttributeError", "TypeError", "ValueError", "KeyError"}

\* a response time taken from the clock at the evaluation
WinnerTimedAtEvaluation(m) ==
    [user_id |-> SenderId(m),
     name |-> SenderName(m),
     timestamp |-> Get(m.v, "t").v,
     response_time |-> now - question_timestamp.v]

\* lines 383-391
Winner(m) ==
    [user_id |-> SenderId(m),
     name |-> SenderName(m),
     timestamp |-> Get(m.v, "t").v,
     response_time |-> Get(m.v, "t").v - question_timestamp.v]

\* a list kept in the order of the timestamps
RECURSIVE InsertByTime(_, _)
InsertByTime(list, w) ==
    IF list = <<>> THEN <<w>>
    ELSE IF w.timestamp < Head(list).timestamp THEN <<w>> \o list
    ELSE <<Head(list)>> \o InsertByTime(Tail(list), w)

\* a winner put where its timestamp belongs
WinnerSortedIn(m) == InsertByTime(correct_respondents, Winner(m))

\* line 382: self.correct_respondents.append(...)
WinnerAppended(m) == Append(correct_respondents, Winner(m))

\* a winner whose user is not noted
SeenUnmarked(m) == seen_users

\* line 382: self.seen_users.add(sender_id)
SeenMarked(m) == seen_users \cup {SenderId(m)}

\* lines 378-379
FirstCorrect(m) ==
    IF ~Truthy(first_correct_message_id) THEN Get(m.v, "id") ELSE first_correct_message_id

\* The call has entered `with self.lock:`, line 341: the returns of lines
\* 327, 332 and 338 and a message without .get come before it.
Entered(m, verdict) ==
    /\ ~(Truthy(m) /\ m.ty # "dict")
    /\ verdict \notin {"irrelevant", "empty_body", "no_timestamp"}

\* a block that an exception leaves without releasing the lock
HeldOnRaise(verdict) == IF Raised(verdict) THEN "held" ELSE "free"

\* The lock when the block of line 341 is left: `with` releases it at a return
\* and at an exception alike.
Released(verdict) == "free"

\* One call of the callback, lines 319-403.
check_answer(m) ==
    LET verdict == Verdict(m)
    IN  /\ listening
        /\ pc # "crashed"
        /\ message' = m
        /\ outcome' = verdict
        /\ listening' = (Raised(verdict) => Caught(verdict))
        /\ Entered(m, verdict) => lock = "free"
        /\ lock' = IF Entered(m, verdict) THEN Released(verdict) ELSE lock
        /\ IF verdict = "accepted"
           THEN /\ first_correct_message_id' = FirstCorrect(m)
                /\ seen_users' = SeenMarked(m)
                /\ correct_respondents' = WinnerAppended(m)
                /\ leaderboard_data' = AppendSeen(leaderboard_data, Winner(m))
           ELSE UNCHANGED <<first_correct_message_id, seen_users, correct_respondents,
                            leaderboard_data>>
        /\ UNCHANGED <<correct_answers, question_timestamp, cutoff_timestamp>>
        /\ UNCHANGED <<current_question_msg_id, current_question_text>>
        /\ callback_unlocked' = {}
        /\ UNCHANGED <<timeline, timeline_unlocked, state, pure, outbox, windows>>

(***************************************************************************)
(* The inbound messages the gateway delivers.                              *)
(***************************************************************************)
\* group members that write in one game
NumUsers == 2
\* group members that write in a crowded game
NumCrowd == 6

UserId(i) == <<"u", DigitChar(i)>>
Sender(i) == PyDict([id |-> PyStr(UserId(i)), pushname |-> PyStr(<<"n", DigitChar(i)>>)])
NoIdSender == PyDict([id |-> Missing, pushname |-> PyStr(<<"n", "0">>)])
JunkSender == PyStr(<<"x">>)
MsgId(i) == PyStr(<<"m", DigitChar(i)>>)

Msg(fromMe, isGroupMsg, from, body, t, sender, id) ==
    PyDict([fromMe |-> fromMe, isGroupMsg |-> isGroupMsg, from |-> from,
            body |-> body, t |-> t, sender |-> sender, id |-> id])

\* a message of a group member to the configured group
GroupMsg(body, t, sender, id) == Msg(PyBool(FALSE), PyBool(TRUE), GROUP_ID, body, t, sender, id)

BodyA == PyStr(<<"A">>)
BodyB == PyStr(<<"b", ".">>)
BodyC == PyStr(<<"c">>)
BodyCD == PyStr(<<"c", " ", "d">>)
BodyPunct == PyStr(<<"!">>)

\* The timestamps worth sending: the two ends of the window opened last, the
\* seconds just outside it, and the last second of every earlier window (the
\* clock's reading before the first round).
Marks ==
    IF windows = <<>> THEN {now}
    ELSE LET w == windows[Len(windows)]
         IN  {w.opened - 1, w.opened, w.cutoff, w.cutoff + 1}
             \cup {windows[i].cutoff : i \in 1..(Len(windows) - 1)}

\* the first second of the window opened last
Opening == IF windows = <<>> THEN now ELSE windows[Len(windows)].opened

\* Members are interchangeable, so they are numbered as they score: the
\* members that write are those that scored in this round and one more.
Writers(n) == {i \in 1..n : \A j \in 1..(i - 1) : UserId(j) \in seen_users}

\* an answer "A" of a member, with any of the timestamps
Answers == {GroupMsg(BodyA, PyInt(t), Sender(i), MsgId(i)) : t \in Marks, i \in Writers(NumUsers)}

\* an answer "A" of a member, sent as the window opens
Prompt(n) == {GroupMsg(BodyA, PyInt(Opening), Sender(i), MsgId(i)) : i \in Writers(n)}

\* other bodies
OtherBodies ==
    {GroupMsg(body, PyInt(Opening), Sender(1), MsgId(1)) :
        body \in {BodyB, BodyC, BodyCD, BodyPunct, None, Missing}}

\* A message of the bot itself, of a private chat or of another group: a
\* member's message with one of fromMe, isGroupMsg and from changed.
Foreign ==
    LET flags == {<<PyBool(TRUE), PyBool(TRUE), GROUP_ID>>,
                  <<PyBool(FALSE), PyBool(FALSE), GROUP_ID>>,
                  <<PyBool(FALSE), Missing, GROUP_ID>>,
                  <<PyBool(FALSE), PyBool(TRUE), OTHER_GROUP>>,
                  <<PyBool(FALSE), PyBool(TRUE), Missing>>,
                  <<PyBool(TRUE), PyBool(FALSE), OTHER_GROUP>>}
    IN  {Msg(f[1], f[2], f[3], body, PyInt(t), Sender(i), MsgId(i)) :
            f \in flags, body \in {BodyA, BodyPunct},
            t \in {Opening, Opening + QUESTION_DURATION + 1}, i \in Writers(NumUsers)}

\* messages that hold a value of an unexpected type, or none
Malformed ==
    {GroupMsg(BodyA, PyInt(t), JunkSender, MsgId(0)) : t \in {Opening, Opening + QUESTION_DURATION + 1}}
    \cup {GroupMsg(BodyA, t, Sender(1), MsgId(1)) : t \in {Missing, None, PyStr(<<"1">>)}}
    \cup {None, PyStr(<<"x">>), Msg(Missing, Missing, Missing, Missing, Missing, Missing, Missing)}

\* messages without a sender, without the sender's id, without an id
Anonymous ==
    {GroupMsg(BodyA, PyInt(Opening), sender, MsgId(0)) : sender \in {Missing, NoIdSender}}
    \cup {GroupMsg(BodyA, PyInt(Opening), Sender(1), Missing)}

\* a game of a few members whose answers come at any time
Deliver == \E m \in Answers : check_answer(m)

\* an answer "A" or "c" of a member of a crowd, sent as the window opens
Crowd ==
    {GroupMsg(body, PyInt(Opening), Sender(i), MsgId(i)) :
        body \in {BodyA, BodyC}, i \in Writers(NumCrowd)}

\* Messages for every way a call ends: right and wrong answers of a crowd,
\* answers stamped before and after the window or not at all, a body that
\* normalizes to nothing, and a message of the bot itself.
Rejects ==
    {GroupMsg(body, PyInt(Opening), Sender(i), MsgId(i)) :
        body \in {BodyA, BodyCD}, i \in Writers(NumCrowd)}
    \cup {GroupMsg(BodyA, t, Sender(1), MsgId(1)) :
            t \in {PyInt(Opening - 1), PyInt(Opening + QUESTION_DURATION + 1), Missing}}
    \cup {GroupMsg(BodyPunct, PyInt(Opening), Sender(1), MsgId(1)),
          Msg(PyBool(TRUE), PyBool(TRUE), GROUP_ID, BodyA, PyInt(Opening), Sender(1), MsgId(1))}

\* a crowded game: more members answer in time than a round has winners
DeliverCrowd == \E m \in Crowd : check_answer(m)

\* a game with messages that are not the group's
DeliverForeign == \E m \in Prompt(NumUsers) \cup Foreign : check_answer(m)

\* a game with other bodies
DeliverBodies == \E m \in Prompt(NumUsers) \cup OtherBodies : check_answer(m)

\* a game with malformed messages
DeliverMalformed == \E m \in Prompt(NumUsers) \cup Malformed : check_answer(m)

\* a crowded game with messages of every kind that is turned down
DeliverRejects == \E m \in Rejects : check_answer(m)

\* a game with messages that lack a field
DeliverAnonymous == \E m \in Prompt(1) \cup Anonymous : check_answer(m)

Next == Timeline \/ Deliver
NextCrowd == Timeline \/ DeliverCrowd
NextForeign == Timeline \/ DeliverForeign
NextBodies == Timeline \/ DeliverBodies
NextMalformed == Timeline \/ DeliverMalformed
NextAnonymous == Timeline \/ DeliverAnonymous
NextRejects == Timeline \/ DeliverRejects

Spec == Init /\ [][Next]_vars
SpecSkew == InitSkew /\ [][Next]_vars
SpecCrowd == Init /\ [][NextCrowd]_vars
SpecForeign == Init /\ [][NextForeign]_vars
SpecBodies == Init /\ [][NextBodies]_vars
SpecMalformed == Init /\ [][NextMalformed]_vars
SpecAnonymous == Init /\ [][NextAnonymous]_vars
SpecRejects == Init /\ [][NextRejects]_vars

\* The steps of a game in which every client.sendText and client.reply returns.
Progress ==
    \/ ResetState
    \/ SendQuestion
    \/ StoreMeta
    \/ SendStop
    \/ ReadForRep
    \/ SendRep
    \/ SaveLast
    \/ SendNext
    \/ SaveAndReset

NextLive == Progress \/ DeliverMalformed

\* asyncio runs main's coroutine on: each asyncio.sleep ends after its fixed
\* time, each send returns, and a thread that waits for the lock gets it once it
\* is free.  Nothing is assumed of the deliveries.
SpecLive == Init /\ [][NextLive]_vars /\ WF_vars(Progress)

(***************************************************************************)
(* Construction: main() creates the game master, lines 510-511.            *)
(***************************************************************************)
\* what creator.state may read after creator.start()
GatewayStates == {"CONNECTED", "UNPAIRED", "CLOSED"}

\* before AsyncTriviaGameMaster(...) there is no object: no attribute exists
InitStartup ==
    /\ pc = "start"
    /\ state \in GatewayStates
    /\ lock = Missing
    /\ timeline_unlocked = {}
    /\ callback_unlocked = {}
    /\ qi = 1
    /\ now = 0
    /\ skew = 0
    /\ msg = None
    /\ msg_timestamp = None
    /\ first_msg_id = None
    /\ answers_copy = {}
    /\ correct_answers = Missing
    /\ correct_respondents = Missing
    /\ seen_users = Missing
    /\ current_question_msg_id = Missing
    /\ current_question_text = Missing
    /\ first_correct_message_id = Missing
    /\ question_timestamp = Missing
    /\ cutoff_timestamp = Missing
    /\ leaderboard_data = Missing
    /\ outbox = <<>>
    /\ listening = FALSE
    /\ message = None
    /\ outcome = "none"
    /\ windows = <<>>
    /\ given = None
    /\ returned = None
    /\ again = None

\* __init__, lines 131-144, then bot.start_listening(), line 511
Built ==
    /\ lock' = "free"
    /\ correct_answers' = {}
    /\ correct_respondents' = <<>>
    /\ seen_users' = {}
    /\ current_question_msg_id' = None
    /\ current_question_text' = None
    /\ first_correct_message_id' = None
    /\ question_timestamp' = None
    /\ cutoff_timestamp' = None
    /\ leaderboard_data' = <<>>
    /\ listening' = TRUE
    /\ pc' = "loop"
    /\ UNCHANGED <<qi, now, skew, msg, msg_timestamp, first_msg_id, answers_copy>>
    /\ UNCHANGED <<state, pure, outbox, message, outcome, windows, access>>

\* a constructor that does not look at creator.state
ConstructUnchecked ==
    /\ pc = "start"
    /\ state # "CONNECTED"
    /\ Built

\* __init__ with the gateway connected
Construct ==
    /\ pc = "start"
    /\ state = "CONNECTED"
    /\ Built

\* __init__, lines 127-128: RuntimeError leaves __init__ and main
ConstructFails ==
    /\ pc = "start"
    /\ state # "CONNECTED"
    /\ pc' = "startup_error"
    /\ UNCHANGED <<qi, now, skew, msg, msg_timestamp, first_msg_id, answers_copy>>
    /\ UNCHANGED <<shared, outbox, callback, windows, startup, access, pure>>

\* a game of a few prompt members, once the listener is registered
DeliverPrompt == listening /\ \E m \in Prompt(NumUsers) : check_answer(m)

NextStartup == Construct \/ ConstructFails \/ Timeline \/ DeliverPrompt
SpecStartup == InitStartup /\ [][NextStartup]_vars

(***************************************************************************)
(* Calls of normalize and of load_questions_from_csv on their own.         *)
(***************************************************************************)
\* the longest text normalize is given
MaxText == 3
\* the longest answers field of a row
MaxField == 3

\* the strs of at most n characters of an alphabet
Strings(alphabet, n) == UNION {[1..k -> alphabet] : k \in 0..n}

\* no game: the module's functions are called on their own
NoGame ==
    /\ qi = 1
    /\ now = 0
    /\ skew = 0
    /\ msg = None
    /\ msg_timestamp = None
    /\ first_msg_id = None
    /\ answers_copy = {}
    /\ correct_answers = {}
    /\ correct_respondents = <<>>
    /\ seen_users = {}
    /\ current_question_msg_id = None
    /\ current_question_text = None
    /\ first_correct_message_id = None
    /\ question_timestamp = None
    /\ cutoff_timestamp = None
    /\ leaderboard_data = <<>>
    /\ outbox = <<>>
    /\ listening = FALSE
    /\ message = None
    /\ outcome = "none"
    /\ windows = <<>>
    /\ state = "CONNECTED"
    /\ lock = "free"
    /\ timeline_unlocked = {}
    /\ callback_unlocked = {}

game == <<qi, now, skew, msg, msg_timestamp, first_msg_id, answers_copy, shared, outbox,
          callback, windows, startup, access>>

\* what normalize is given: texts with capitals, blanks, tabs, punctuation and
\* underscores, and values that are no str
Texts ==
    {PyStr(s) : s \in Strings({"A", "b", " ", "\t", "!", "_"}, MaxText)}
    \cup {None, PyInt(1), PyBool(TRUE)}

InitNormalize ==
    /\ NoGame
    /\ pc = "normalize"
    /\ given \in Texts
    /\ returned = None
    /\ again = None

\* normalize(given)
NormalizeOnce ==
    /\ pc = "normalize"
    /\ returned' = PyStr(normalize(given))
    /\ pc' = "normalized"
    /\ UNCHANGED <<game, given, again>>

\* normalize(normalize(given))
NormalizeAgain ==
    /\ pc = "normalized"
    /\ again' = PyStr(normalize(returned))
    /\ pc' = "renormalized"
    /\ UNCHANGED <<game, given, returned>>

NextNormalize == NormalizeOnce \/ NormalizeAgain
SpecNormalize == InitNormalize /\ [][NextNormalize]_vars

\* the rows csv.DictReader yields: one plain row and one with any answers field
Files ==
    {<< [question |-> <<"q", "1">>, answers |-> <<"a", "|", "b">>],
        [question |-> q, answers |-> f] >> :
        q \in {<<"q", "2">>, <<" ", "q", "2", " ">>},
        f \in Strings({"A", "b", " ", "|"}, MaxField)}

InitLoader ==
    /\ NoGame
    /\ pc = "load"
    /\ given \in Files
    /\ returned = None
    /\ again = None

\* load_questions_from_csv(path)
Load ==
    /\ pc = "load"
    /\ returned' = load_questions_from_csv(given)
    /\ pc' = "loaded"
    /\ UNCHANGED <<game, given, again>>

NextLoader == Load
SpecLoader == InitLoader /\ [][NextLoader]_vars

(***************************************************************************)
(* Properties.                                                             *)
(***************************************************************************)
\* a step of the callback: the timeline stands still
Evaluated == UNCHANGED timeline

\* m is a message of a member to the configured group
OfTheGroup(m) ==
    /\ m.ty = "dict"
    /\ m.v.fromMe \in {PyBool(FALSE), Missing}
    /\ m.v.isGroupMsg = PyBool(TRUE)
    /\ m.v.from = GROUP_ID

\* m carries a whole-second timestamp
Stamped(m) == m.v.t.ty = "int"

\* a round is open
RoundOpen == question_timestamp.ty = "int" /\ cutoff_timestamp.ty = "int"

\* m was sent within the window of the open round
InWindow(m) == question_timestamp.v <= m.v.t.v /\ m.v.t.v <= cutoff_timestamp.v

\* the users on the winners list
WinnerIds == {correct_respondents[i].user_id : i \in 1..Len(correct_respondents)}

\* m names its sender
Signed(m) == m.v.sender.ty = "dict" /\ m.v.sender.v.id.ty = "str"

\* m comes from a user that has not scored in the open round
FromNewUser(m) == Signed(m) /\ m.v.sender.v.id.v \notin WinnerIds

\* m gives an accepted answer of the open round
Right(m) == m.v.body.ty = "str" /\ normalize(m.v.body) \in correct_answers

\* the call of this step put the sender of m last on the winners list
Recorded(m) ==
    /\ Len(correct_respondents') = Len(correct_respondents) + 1
    /\ SubSeq(correct_respondents', 1, Len(correct_respondents)) = correct_respondents
    /\ correct_respondents'[Len(correct_respondents')].user_id = m.v.sender.v.id.v
    /\ correct_respondents'[Len(correct_respondents')].timestamp = m.v.t.v

\* C1: the winners list of a round never holds more than 5 entries, neither
\* while the round runs nor on the leaderboard, and a correct answer sent within
\* the window by a user that has not scored, evaluated when the list holds 5
\* entries, leaves the list as it is.
C1_AtMostFiveWinners ==
    [][/\ Len(correct_respondents') <= 5
       /\ \A i \in 1..Len(leaderboard_data') : Len(leaderboard_data'[i].winners) <= 5
       /\ (Evaluated /\ Len(correct_respondents) = 5)
            => correct_respondents' = correct_respondents]_vars

\* a sixth member has answered correctly within the window of a round that has
\* five winners
C1_SixthArrives ==
    /\ Len(correct_respondents) = 5
    /\ OfTheGroup(message) /\ Stamped(message) /\ RoundOpen /\ InWindow(message)
    /\ Right(message) /\ FromNewUser(message)

\* C2: no two entries of a winners list carry the same userId, neither while the
\* round runs nor on the leaderboard, and a message of a user that is on the
\* list leaves the list as it is, whatever answer it gives.
C2_OneEntryPerUser ==
    [][/\ Cardinality({correct_respondents'[i].user_id : i \in 1..Len(correct_respondents')})
            = Len(correct_respondents')
       /\ \A k \in 1..Len(leaderboard_data') :
            LET w == leaderboard_data'[k].winners
            IN  Cardinality({w[i].user_id : i \in 1..Len(w)}) = Len(w)
       /\ (Evaluated /\ message'.ty = "dict" /\ Signed(message')
             /\ message'.v.sender.v.id.v \in WinnerIds)
            => correct_respondents' = correct_respondents]_vars

\* a member that scored with "A" answers "c", which is accepted as well, within
\* the window of the same round, and the list has room
C2_SecondAnswer ==
    /\ OfTheGroup(message) /\ Stamped(message) /\ RoundOpen /\ InWindow(message)
    /\ message.v.body = BodyC /\ Right(message)
    /\ Len(correct_respondents) = 1
    /\ correct_respondents[1].user_id = message.v.sender.v.id.v
    /\ outcome = "duplicate"

\* C3: while a round is open its cutoff is its opening plus 15 s, and a message
\* that passes every other check (of a member of the group, with an accepted
\* answer, from a user that has not scored, the list not full) is recorded if
\* and only if opening <= t <= cutoff, both ends included.
C3_WindowInclusive ==
    [][/\ RoundOpen' => cutoff_timestamp'.v = question_timestamp'.v + 15
       /\ (Evaluated /\ RoundOpen /\ OfTheGroup(message') /\ Stamped(message')
             /\ Right(message') /\ FromNewUser(message')
             /\ Len(correct_respondents) < 5)
            => (Recorded(message') <=> InWindow(message'))]_vars

\* an answer stamped with the cutoff itself is on the list, and the same answer
\* of another member stamped one second later is not
C3_AtTheCutoff ==
    /\ RoundOpen
    /\ Len(correct_respondents) = 1
    /\ correct_respondents[1].timestamp = cutoff_timestamp.v
    /\ OfTheGroup(message) /\ Stamped(message) /\ Right(message) /\ FromNewUser(message)
    /\ message.v.t.v = cutoff_timestamp.v + 1

\* m is the bot's own message, or one of a private chat or of another group
NotOfTheGroup(m) ==
    /\ m.ty = "dict"
    /\ \/ m.v.fromMe = PyBool(TRUE)
       \/ m.v.isGroupMsg # PyBool(TRUE)
       \/ m.v.from # GROUP_ID

\* C4: a message sent by the bot itself, one that is not a group message and one
\* of a group other than the configured one change nothing of the round state,
\* whatever their body and timestamp.
C4_ForeignIgnored ==
    [][(Evaluated /\ NotOfTheGroup(message')) => UNCHANGED shared]_vars

\* the bot's own message gives an accepted answer within the window of a round
\* whose list has room, and its sender has not scored
C4_OwnAnswer ==
    /\ message.ty = "dict" /\ message.v.fromMe = PyBool(TRUE)
    /\ message.v.isGroupMsg = PyBool(TRUE) /\ message.v.from = GROUP_ID
    /\ Stamped(message) /\ RoundOpen /\ InWindow(message)
    /\ Right(message) /\ FromNewUser(message)
    /\ Len(correct_respondents) < 5

\* the rounds main() has been through
RoundsCompleted == IF pc = "done" THEN Len(Questions) ELSE qi - 1

\* C5: the leaderboard only grows, by one entry at its end, and once rounds
\* 1..k are completed it holds k entries, the i-th with the question text of
\* round i, whether or not the round had a winner.
C5_LeaderboardInOrder ==
    [][/\ \/ leaderboard_data' = leaderboard_data
          \/ /\ Len(leaderboard_data') = Len(leaderboard_data) + 1
             /\ SubSeq(leaderboard_data', 1, Len(leaderboard_data)) = leaderboard_data
       /\ Len(leaderboard_data') = RoundsCompleted'
       /\ \A i \in 1..Len(leaderboard_data') :
            leaderboard_data'[i].question_text = PyStr(<<"q", DigitChar(i)>>)]_vars

\* the game is over: a round without a winner, then one with a winner
C5_BothRoundsSaved ==
    /\ pc = "done"
    /\ Len(leaderboard_data) = 2
    /\ leaderboard_data[1].winners = <<>>
    /\ leaderboard_data[2].winners # <<>>

\* C6: a failed send of the question, of STOP, of the reveal or of NEXT does not
\* end the timeline with the round unrecorded: the leaderboard holds the entry
\* of the round, with the winners recorded before the failure.
C6_FailedSendFinalized ==
    pc = "crashed" =>
        /\ Len(leaderboard_data) = qi
        /\ leaderboard_data[qi].winners = correct_respondents

\* m is no message, or holds a sender that is not a mapping or a timestamp that
\* is not a number
Unexpected(m) ==
    \/ m.ty # "dict"
    \/ m.v.sender.ty \notin {"dict", "missing"}
    \/ m.v.t.ty # "int"

\* C7: no call of check_answer raises to its caller, so the listener goes on,
\* and a call with no message or with a message of unexpected shape leaves the
\* state the next call is evaluated against as it was.
C7_NeverRaises ==
    [][/\ listening'
       /\ (Evaluated /\ Unexpected(message')) => UNCHANGED shared]_vars

\* an accepted answer within the window whose sender is a str: the call got as
\* far as sender_info.get, which a str does not have, and the listener goes on
C7_SenderNotAMapping ==
    /\ listening
    /\ OfTheGroup(message) /\ Stamped(message) /\ RoundOpen /\ InWindow(message)
    /\ Right(message)
    /\ message.v.sender = JunkSender
    /\ outcome = "AttributeError"

\* "REP: " and the accepted answers of round n, sorted and joined with " / "
RevealList(n) ==
    IF n = 1
    THEN <<"R", "E", "P", ":", " ", "a", " ", "/", " ", "b", ".", " ", "/", " ", "c">>
    ELSE <<"R", "E", "P", ":", " ", "a", " ", "/", " ", "c", " ", " ", "d">>

\* the reveals among the messages sent
Reveals(sent) == {i \in 1..Len(sent) : SubSeq(sent[i].text, 1, 3) = <<"R", "E", "P">>}

\* the rounds whose reveal is due
RoundsRevealed ==
    IF pc \in {"next", "save_next", "save_last", "done"} THEN qi ELSE qi - 1

\* C8: send_rep reads, in one step, the id of the first correct message of the
\* round, which is that of the first winner's message, or None when the round
\* has no winner; it then sends one message: with an id, a reply "REP" that
\* quotes it and lists nothing, without one, "REP: " and the accepted answers
\* sorted and joined with " / ".  Every round revealed has one reveal.
C8_Reveal ==
    [][/\ (pc = "grace" /\ pc' = "send_rep") =>
            first_msg_id' = IF correct_respondents = <<>> THEN None
                            ELSE PyStr(<<"m", correct_respondents[1].user_id[2]>>)
       /\ (pc = "send_rep" /\ pc' \in {"next", "save_last"}) =>
            outbox' = Append(outbox,
                IF first_msg_id # None
                THEN [kind |-> "reply", to |-> GROUP_ID, text |-> <<"R", "E", "P">>,
                      quoted |-> first_msg_id]
                ELSE [kind |-> "sendText", to |-> GROUP_ID, text |-> RevealList(qi),
                      quoted |-> None])
       /\ pc' # "crashed" => Cardinality(Reveals(outbox')) = RoundsRevealed']_vars

\* the game is over: round 1 had no winner and its reveal listed the answers,
\* round 2 had one and its reveal quoted the winner's message
C8_BothReveals ==
    /\ pc = "done"
    /\ leaderboard_data[1].winners = <<>>
    /\ outbox[3].kind = "sendText" /\ outbox[3].text = RevealList(1)
    /\ leaderboard_data[2].winners # <<>>
    /\ outbox[7].kind = "reply" /\ outbox[7].quoted = MsgId(1)

\* C9: an answer of a member of the group, sent within the window by a user that
\* has not scored while the list has room, is recorded when its body normalizes
\* to the normalization, not empty, of an answer the round was started with.
C9_NormalizedAnswerAccepted ==
    [][(/\ Evaluated /\ RoundOpen
        /\ OfTheGroup(message') /\ Stamped(message') /\ InWindow(message')
        /\ FromNewUser(message') /\ Len(correct_respondents) < 5
        /\ message'.v.body.ty = "str"
        /\ \E a \in Questions[qi].answers :
              /\ normalize(PyStr(a)) # <<>>
              /\ normalize(message'.v.body) = normalize(PyStr(a)))
        => Recorded(message')]_vars

\* C10: once round N+1 is open, a message stamped at or before the cutoff of
\* round N adds no winner, whether round N+1 was opened by the timestamp of the
\* acknowledgment or by the host's clock.
C10_LateAnswerNeverScores ==
    [][(/\ Evaluated /\ RoundOpen /\ Len(windows) >= 2
        /\ message'.ty = "dict" /\ Stamped(message')
        /\ message'.v.t.v <= windows[Len(windows) - 1].cutoff)
        => correct_respondents' = correct_respondents]_vars

\* the leaderboard holds the entry of the round the live state belongs to
RoundRecorded == pc = "done" /\ Len(leaderboard_data) = qi

\* C11: once the entry of a round is on the leaderboard, no evaluation adds a
\* winner to the live state of that round or sets its first correct message
\* id, whatever the timestamp of the message; the last round included.
C11_ClosedForGood ==
    [][(Evaluated /\ RoundRecorded) =>
          /\ correct_respondents' = correct_respondents
          /\ first_correct_message_id' = first_correct_message_id]_vars

\* the text the i-th outbound message of a game must carry: "Q<n>: q<n>",
\* "STOP", a reveal, "NEXT", round after round
InOrder(i, text) ==
    LET n == ((i - 1) \div 4) + 1
        k == (i - 1) % 4
    IN  CASE k = 0 -> text = <<"Q", DigitChar(n), ":", " ", "q", DigitChar(n)>>
          [] k = 1 -> text = <<"S", "T", "O", "P">>
          [] k = 2 -> SubSeq(text, 1, 3) = <<"R", "E", "P">>
          [] OTHER -> text = <<"N", "E", "X", "T">>

\* C12: the messages sent are, round after round, the question, STOP, the
\* reveal and, but for the last round, NEXT, in this order; and when the
\* question of round n+1 has been sent, the reveal of round n has been sent
\* and the leaderboard holds the entry of round n.
C12_FixedOrder ==
    /\ \A i \in 1..Len(outbox) : InOrder(i, outbox[i].text)
    /\ \A n \in 1..2 : Len(outbox) >= 4 * n + 1 => Len(leaderboard_data) >= n

\* the question of round 2 is out: round 1 went through STOP, reveal and NEXT
C12_SecondQuestionSent ==
    /\ Len(outbox) = 5
    /\ outbox[5].text = <<"Q", "2", ":", " ", "q", "2">>
    /\ Len(leaderboard_data) = 1

\* the NEXT messages sent
NextsSent == Cardinality({i \in 1..Len(outbox) : outbox[i].text = <<"N", "E", "X", "T">>})

\* C13: in the game of 2 rounds NEXT is sent once after round 1, when its
\* reveal is out, and never after round 2; when the game is over, 1 NEXT has
\* been sent and 2 entries are on the leaderboard.
C13_NextBetweenRounds ==
    /\ NextsSent = (IF pc = "save_next" THEN qi ELSE qi - 1)
    /\ NextsSent <= 1
    /\ pc = "done" => (NextsSent = 1 /\ Len(leaderboard_data) = 2)

\* the game is over and its last message is the reveal of round 2
C13_GameOver ==
    /\ pc = "done"
    /\ Len(outbox) = 7
    /\ SubSeq(outbox[7].text, 1, 3) = <<"R", "E", "P">>
    /\ outbox[4].text = <<"N", "E", "X", "T">>

\* C14: an accepting evaluation puts its winner at the end of the list, behind
\* the winners of the evaluations that held the lock before it, also when its
\* message carries an equal or a smaller timestamp; no evaluation moves or
\* removes a winner, and the timeline leaves the list or clears it.
C14_ArrivalOrder ==
    [][IF Evaluated
       THEN \/ correct_respondents' = correct_respondents
            \/ Recorded(message')
       ELSE correct_respondents' \in {correct_respondents, <<>>}]_vars

\* the second winner's message was sent before the first winner's
C14_LaterButEarlier ==
    /\ Len(correct_respondents) = 2
    /\ correct_respondents[2].timestamp < correct_respondents[1].timestamp
    /\ message.v.sender.v.id.v = correct_respondents[2].user_id
    /\ message.v.t.v = correct_respondents[2].timestamp

\* C15: an entry of the leaderboard keeps its question text and its winners in
\* every later state, whatever is accepted into the live list afterwards and
\* whenever the state of the round is reset.
C15_EntriesFrozen ==
    [][\A i \in 1..Len(leaderboard_data) :
          /\ i <= Len(leaderboard_data')
          /\ leaderboard_data'[i].question_text = leaderboard_data[i].question_text
          /\ leaderboard_data'[i].winners = leaderboard_data[i].winners]_vars

\* the entry of round 1 holds a winner and outlived the reset; the entry of
\* round 2 was recorded without a winner, and the live list got one afterwards
C15_LiveListGrewAfterwards ==
    /\ pc = "done"
    /\ Len(leaderboard_data) = 2
    /\ leaderboard_data[1].winners # <<>>
    /\ leaderboard_data[2].winners = <<>>
    /\ correct_respondents # <<>>

\* m carries no sender, or a sender without an id
Unsigned(m) ==
    \/ m.v.sender = Missing
    \/ m.v.sender.ty = "dict" /\ m.v.sender.v.id = Missing

\* C16: a message of the group without a sender, or whose sender has no id,
\* adds no winner, marks no user as having answered and sets no first correct
\* message id, also when its body is accepted and its timestamp is within the
\* window.
C16_UnsignedRejected ==
    [][(Evaluated /\ message'.ty = "dict" /\ Unsigned(message')) =>
          /\ correct_respondents' = correct_respondents
          /\ seen_users' = seen_users
          /\ first_correct_message_id' = first_correct_message_id]_vars

\* C17: when the gateway is not CONNECTED at construction, construction ends in
\* the startup error and there is no game master: no lock, no round state and
\* no leaderboard exist, no listener is registered, nothing is sent and no
\* message is evaluated.
C17_NoMasterWithoutConnection ==
    state # "CONNECTED" =>
        /\ pc \in {"start", "startup_error"}
        /\ lock = Missing
        /\ correct_answers = Missing /\ correct_respondents = Missing
        /\ seen_users = Missing /\ first_correct_message_id = Missing
        /\ question_timestamp = Missing /\ cutoff_timestamp = Missing
        /\ current_question_msg_id = Missing /\ current_question_text = Missing
        /\ leaderboard_data = Missing
        /\ ~listening
        /\ outbox = <<>>
        /\ message = None /\ outcome = "none"

\* construction has failed with the gateway unpaired
C17_StartupError == pc = "startup_error" /\ state = "UNPAIRED"

\* C18: normalize applied to what normalize returned returns the same, and
\* normalize of a value that is no str returns the empty str.
C18_Idempotent ==
    /\ pc = "renormalized" => again = returned
    /\ (pc \in {"normalized", "renormalized"} /\ given.ty # "str") => returned = PyStr(<<>>)

\* "! A" was normalized to "a", and "a" again
C18_TwiceNormalized ==
    /\ pc = "renormalized"
    /\ given = PyStr(<<"!", " ", "A">>)
    /\ returned = PyStr(<<"a">>)

\* C19: of every row the loaded answers are the pipe-separated tokens,
\* lowercased and trimmed, without the tokens that are empty once trimmed: the
\* empty str is no answer, and every loaded question has an answer.
C19_LoadedAnswers ==
    pc = "loaded" =>
        \A i \in 1..Len(returned) :
            /\ <<>> \notin returned[i].answers
            /\ \A a \in returned[i].answers : Strip(Lower(a)) = a
            /\ returned[i].answers # {}

\* every field of the round is cleared
Cleared ==
    /\ correct_answers = {} /\ correct_respondents = <<>> /\ seen_users = {}
    /\ first_correct_message_id = None
    /\ question_timestamp = None /\ cutoff_timestamp = None
    /\ current_question_text = None

\* every field of the round is that of round n
InitializedFor(n) ==
    /\ correct_answers # {}
    /\ RoundOpen
    /\ current_question_text = PyStr(<<"q", DigitChar(n)>>)

\* C20: what an evaluation finds when it gets the lock is either a round with
\* all its fields (answers, opening, cutoff and question text of one round) or
\* a state with every field cleared; never the answers of a round together
\* with unset timestamps.
C20_RoundInitAtomic ==
    [][(Evaluated /\ message' # message) => (Cleared \/ InitializedFor(qi))]_vars

\* C21: every read and every write of the shared round fields and of the
\* leaderboard list, by a step of the timeline or by a call of check_answer,
\* is made while the lock is held.
C21_AllUnderLock ==
    timeline_unlocked \cup callback_unlocked = {}

\* C22: the lock is released on every exit path: once check_answer has returned,
\* by acceptance, by a rejection or through an exception raised inside the
\* critical section, and once a step of the timeline has finished, the lock is
\* not held.
C22_LockReleased ==
    lock = "free"

\* an evaluation has raised inside the critical section
C22_RaisedInside ==
    /\ outcome = "TypeError"
    /\ message.v.t = PyStr(<<"1">>)
    /\ RoundOpen
    /\ lock = "free"

\* C23: while a round is open, first_correct_message_id is set exactly when
\* the list of winners is not empty; the evaluation that records the first
\* winner sets it to the id of its message, and no later evaluation changes it.
C23_FirstCorrectIsFirstWinner ==
    [][/\ RoundOpen' =>
            (Truthy(first_correct_message_id') <=> correct_respondents' # <<>>)
       /\ (Evaluated /\ correct_respondents = <<>> /\ correct_respondents' # <<>>) =>
            first_correct_message_id' = Get(message'.v, "id")
       /\ (Evaluated /\ correct_respondents # <<>>) =>
            first_correct_message_id' = first_correct_message_id]_vars

\* C24: every recorded winner, of the live round and of every leaderboard
\* entry, has a response time equal to its timestamp minus the opening of the
\* round it was accepted in, which is between 0 and 15 seconds.
C24_ResponseTime ==
    /\ \A k \in 1..Len(correct_respondents) :
        LET w == correct_respondents[k]
        IN  /\ w.response_time = w.timestamp - question_timestamp.v
            /\ 0 <= w.response_time /\ w.response_time <= 15
    /\ \A i \in 1..Len(leaderboard_data) :
        \A k \in 1..Len(leaderboard_data[i].winners) :
            LET w == leaderboard_data[i].winners[k]
            IN  /\ w.response_time = w.timestamp - windows[i].opened
                /\ 0 <= w.response_time /\ w.response_time <= 15

\* the second round is recorded with a winner that answered at its cutoff,
\* and the first with one that answered as it opened
C24_AtBothEnds ==
    /\ Len(leaderboard_data) = 2
    /\ \E k \in 1..Len(leaderboard_data[2].winners) :
        /\ leaderboard_data[2].winners[k].response_time = 15
        /\ leaderboard_data[2].winners[k].timestamp > 15
    /\ \E k \in 1..Len(leaderboard_data[1].winners) :
        leaderboard_data[1].winners[k].response_time = 0

\* m passes every check of an evaluation: a member's message to the group,
\* stamped within the window of the open round, with an accepted answer, of a
\* user that has not scored, while the list holds fewer than 5 winners
Eligible(m) ==
    /\ OfTheGroup(m) /\ Stamped(m) /\ RoundOpen /\ InWindow(m)
    /\ Right(m) /\ FromNewUser(m)
    /\ Len(correct_respondents) < 5

\* C25: an evaluation that rejects its message, for whatever reason (origin,
\* empty normalized body, missing timestamp, no open round, timestamp outside
\* the window, wrong answer, user that has scored, 5 winners reached), changes
\* none of the winners, the users that responded, the first correct message
\* id, the accepted answers, the opening, the cutoff and the leaderboard.
C25_RejectionHasNoEffect ==
    [][(Evaluated /\ message'.ty = "dict" /\ ~Eligible(message')) =>
            UNCHANGED <<correct_respondents, seen_users, first_correct_message_id,
                        correct_answers, question_timestamp, cutoff_timestamp,
                        leaderboard_data>>]_vars

\* a wrong answer arrived in time from a user that had not scored, after
\* others had, and a round is already on the leaderboard
C25_WrongAnswerInTime ==
    /\ OfTheGroup(message) /\ Stamped(message) /\ RoundOpen /\ InWindow(message)
    /\ ~Right(message) /\ message.v.body = BodyCD
    /\ FromNewUser(message)
    /\ Len(correct_respondents) = 2

\* C26: the users that responded are exactly the users on the winners list: a
\* user is noted only by an accepted answer, so one whose answer was wrong,
\* late, early or dropped at 5 winners is not noted.
C26_SeenAreTheWinners ==
    seen_users = WinnerIds

\* five users have scored and the answer of a sixth was dropped
C26_DroppedAtTheCap ==
    /\ Cardinality(seen_users) = 5
    /\ OfTheGroup(message) /\ Stamped(message) /\ RoundOpen /\ InWindow(message)
    /\ Right(message)
    /\ message.v.sender.v.id.v = UserId(6)
    /\ UserId(6) \notin seen_users

\* the question of the round was sent and the round is not yet put on the
\* leaderboard
BeingPlayed == pc \in {"store", "collect", "grace", "send_rep", "next", "save_next", "save_last"}

\* the opening of the round being played: the acknowledgment's timestamp, that
\* run_question holds from the sending of the question on
OpenedAt == msg_timestamp.v

\* C27: a correct answer of a user that has not scored, stamped within
\* [openedAt, openedAt + 15] of the round being played and evaluated with fewer
\* than 5 winners at any moment between the sending of the round's question
\* and the recording of its leaderboard entry, is recorded as a winner.
C27_AcceptedWheneverEvaluated ==
    [][(/\ Evaluated
        /\ BeingPlayed
        /\ message'.ty = "dict"
        /\ OfTheGroup(message') /\ Stamped(message')
        /\ OpenedAt <= message'.v.t.v /\ message'.v.t.v <= OpenedAt + 15
        /\ Right(message') /\ FromNewUser(message')
        /\ Len(correct_respondents) < 5)
            => Recorded(message')]_vars

\* the question of round n was sent
Announced(n) ==
    \E i \in 1..Len(outbox) :
        outbox[i].text = <<"Q", DigitChar(n), ":", " ", "q", DigitChar(n)>>

\* C28: with no send failure and a fair scheduling, whatever messages are
\* delivered meanwhile, every round announced is eventually revealed and put on
\* the leaderboard, and the game of 2 rounds eventually ends with both done.
C28_GameTerminates ==
    /\ \A n \in 1..2 :
        Announced(n) ~>
            (Cardinality(Reveals(outbox)) >= n /\ Len(leaderboard_data) >= n)
    /\ <>(pc = "done" /\ Cardinality(Reveals(outbox)) = 2 /\ Len(leaderboard_data) = 2)

\* the game is over, and a message that raised inside the critical section
\* was among those delivered
C28_OverDespiteMalformed ==
    /\ pc = "done"
    /\ Len(leaderboard_data) = 2
    /\ outcome = "AttributeError"
    /\ message.ty = "dict"
    /\ message.v.sender = JunkSender

=============================================================================
